---- MODULE Spec2Model ----
(***************************************************************************)
(* Model of scripts/run_yahoo_pead.py: the 30-day ATM implied-volatility   *)
(* estimator (pick_expiries, nearest_atm_iv, iv30_from_yahoo), the gap-    *)
(* fill / CLV helper (gapfill_and_clv), the drift scorer (simple_pead) and *)
(* the per-ticker loop of main.                                            *)
(*                                                                         *)
(* Encodings.  Timestamps are integer unix seconds, as in the source.      *)
(* A Python value is a record: None, Num(v) or Str (a non-numeric JSON     *)
(* value such as a string).  Implied volatilities are integers in units of *)
(* 1e-6 (200000 is 0.2); prices are integer cents; percentages returned by *)
(* round(x, 2) are integer hundredths and values returned by round(x, 3)   *)
(* integer thousandths.  Floating-point arithmetic is modelled by exact    *)
(* rational arithmetic, except the day conversion of pick_expiries, whose  *)
(* IEEE-754 rounding is modelled exactly (IntDaysTimes86400).              *)
(***************************************************************************)
EXTENDS Integers, Sequences, FiniteSets, TLC

VARIABLES pc, args, ext, ret, next_row, companies, iv_files

vars == <<pc, args, ext, ret, next_row, companies, iv_files>>

----------------------------------------------------------------------------
(* Python values *)

None == [t |-> "None"]

Num(v) == [t |-> "num", v |-> v]

Str == [t |-> "str"]

IsNum(x) == x.t = "num"

----------------------------------------------------------------------------
(* Bounds of the model *)

NOW == 1700000000

MaxJitter == 1

MaxExp == 2

----------------------------------------------------------------------------
(* pick_expiries *)

DAY == 86400

TARGET_DAYS == 30

Max(a, b) == IF a >= b THEN a ELSE b

Min(a, b) == IF a <= b THEN a ELSE b

RECURSIVE FloorLog2(_)
FloorLog2(n) == IF n < 2 THEN 0 ELSE 1 + FloorLog2(n \div 2)

RECURSIVE Pow2(_)
Pow2(k) == IF k = 0 THEN 1 ELSE 2 * Pow2(k - 1)

RECURSIVE Pow2Mod675(_)
Pow2Mod675(k) == IF k = 0 THEN 1 ELSE (2 * Pow2Mod675(k - 1)) % 675

(* int((x / 86400.0) * 86400) for an integer 675 <= x < 2^31, in IEEE-754   *)
(* double arithmetic.  86400 = 675 * 2^7, so x/86400.0 is m / 2^7 with      *)
(* m = fl(x/675), and the product is fl(m * 675).  With em the binary       *)
(* exponent of x/675 and r the remainder of x * 2^(52-em) by 675, m is      *)
(* rounded down by r/675 ulp(m) when 0 < 2r < 675; m * 675 is then          *)
(* x - r ulp(m), which rounds below x exactly when r > 2^(ex-em-1), and     *)
(* int() truncates that to x - 1.                                           *)
IntDaysTimes86400(x) ==
    LET em == FloorLog2(x \div 675)
        ex == FloorLog2(x)
        r  == ((x % 675) * Pow2Mod675(52 - em)) % 675
    IN  IF r > 0 /\ 2 * r < 675 /\ r > Pow2(ex - em - 1) THEN x - 1 ELSE x

(* The float (e - t_now)/86400.0 is represented by the integer e - t_now   *)
(* it is computed from; d <= 30.0 and d >= 30.0 are then exact comparisons *)
(* of e - t_now with 30 * 86400.                                           *)
Days(exp_unix, t_now_unix) ==
    LET F[i \in 0..Len(exp_unix)] ==
            IF i = 0 THEN <<>>
            ELSE IF exp_unix[i] > t_now_unix + DAY
                   THEN Append(F[i - 1], exp_unix[i] - t_now_unix)
                   ELSE F[i - 1]
    IN  F[Len(exp_unix)]

Below(days) == SelectSeq(days, LAMBDA d : d <= TARGET_DAYS * DAY)

Above(days) == SelectSeq(days, LAMBDA d : d >= TARGET_DAYS * DAY)

pick_expiries(exp_unix, t_now_unix) ==
    LET days  == Days(exp_unix, t_now_unix)
        below == Below(days)
        above == Above(days)
    IN  IF days = <<>> THEN [e1 |-> None, e2 |-> None]
        ELSE [e1 |-> Num(t_now_unix + IntDaysTimes86400(
                        IF below # <<>> THEN below[Len(below)] ELSE above[1])),
              e2 |-> Num(t_now_unix + IntDaysTimes86400(
                        IF above # <<>> THEN above[1] ELSE below[Len(below)]))]

(* Inputs: expiry lists, in any order, of timestamps 1, 20, 30 or 40 days  *)
(* after NOW plus a few seconds.                                           *)
ExpChoices == {NOW + k * DAY + j : k \in {1, 20, 30, 40}, j \in 0..MaxJitter}

SeqsUpTo(S, n) == UNION {[1..k -> S] : k \in 0..n}

ExpLists == SeqsUpTo(ExpChoices, MaxExp)

Idle == [f |-> "none"]

InitPick ==
    /\ pc = "call"
    /\ args \in {[f |-> "pick_expiries", exp_unix |-> l, t_now_unix |-> NOW] : l \in ExpLists}
    /\ ext = <<>>
    /\ ret = Idle
    /\ next_row = 0
    /\ companies = <<>>
    /\ iv_files = {}

CallPickExpiries ==
    /\ pc = "call"
    /\ args.f = "pick_expiries"
    /\ ret' = pick_expiries(args.exp_unix, args.t_now_unix)
    /\ pc' = "done"
    /\ UNCHANGED <<args, ext, next_row, companies, iv_files>>

NextPick == CallPickExpiries

SpecPick == InitPick /\ [][NextPick]_vars


Range(s) == {s[i] : i \in 1..Len(s)}

SetMax(S) == CHOOSE x \in S : \A y \in S : y <= x

SetMin(S) == CHOOSE x \in S : \A y \in S : x <= y

Usable(exp_unix, t) == {e \in Range(exp_unix) : e > t + DAY}

AtMost30(exp_unix, t) == {e \in Usable(exp_unix, t) : e - t <= TARGET_DAYS * DAY}

AtLeast30(exp_unix, t) == {e \in Usable(exp_unix, t) : e - t >= TARGET_DAYS * DAY}

(* C1: for every expiry list and reference time, over the expiries more    *)
(* than 1 day ahead, pick_expiries returns e1 = the latest expiry at most  *)
(* 30 days out if there is one, else the earliest at least 30 days out,    *)
(* and e2 = the earliest expiry at least 30 days out if there is one, else *)
(* the latest at most 30 days out.                                         *)
C1_ExpirySelection ==
    (pc = "done" /\ args.f = "pick_expiries"
        /\ Usable(args.exp_unix, args.t_now_unix) # {}) =>
    LET le == AtMost30(args.exp_unix, args.t_now_unix)
        ge == AtLeast30(args.exp_unix, args.t_now_unix)
    IN  /\ ret.e1 = Num(IF le # {} THEN SetMax(le) ELSE SetMin(ge))
        /\ ret.e2 = Num(IF ge # {} THEN SetMin(ge) ELSE SetMax(le))

----------------------------------------------------------------------------
(* nearest_atm_iv and the per-expiry call/put combination *)

Raise == [t |-> "raise"]

BEST_DIFF_INIT == 1000000000

Abs(x) == IF x < 0 THEN 0 - x ELSE x

(* iv in (None, 0) *)
InNoneZero(iv) == iv = None \/ iv = Num(0)

AtmStepLastTie(st, opt, spot) ==
    IF st.raised THEN st
    ELSE IF opt.strike = None \/ InNoneZero(opt.impliedVolatility) THEN st
    ELSE IF ~ (IsNum(opt.strike) /\ IsNum(spot)) THEN [st EXCEPT !.raised = TRUE]
    ELSE LET d == Abs(opt.strike.v - spot.v)
         IN  IF d <= st.best_diff
               THEN [st EXCEPT !.best_diff = d, !.best_iv = opt.impliedVolatility]
               ELSE st

(* One iteration of the loop of nearest_atm_iv on the state                *)
(* [best_iv, best_diff, raised]; abs(k - spot) raises TypeError unless     *)
(* strike and spot are both numbers.                                       *)
AtmStep(st, opt, spot) ==
    IF st.raised THEN st
    ELSE IF opt.strike = None \/ InNoneZero(opt.impliedVolatility) THEN st
    ELSE IF ~ (IsNum(opt.strike) /\ IsNum(spot)) THEN [st EXCEPT !.raised = TRUE]
    ELSE LET d == Abs(opt.strike.v - spot.v)
         IN  IF d < st.best_diff
               THEN [st EXCEPT !.best_diff = d, !.best_iv = opt.impliedVolatility]
               ELSE st

nearest_atm_iv(options, spot) ==
    LET F[i \in 0..Len(options)] ==
            IF i = 0 THEN [best_iv |-> None, best_diff |-> BEST_DIFF_INIT, raised |-> FALSE]
            ELSE AtmStep(F[i - 1], options[i], spot)
        end == F[Len(options)]
    IN  IF end.raised THEN Raise ELSE end.best_iv

(* Python truth value of an IV pick *)
Truthy(x) == x = Str \/ (IsNum(x) /\ x.v # 0)

(* (a + b) / 2: TypeError unless both are numbers.  The IVs of the model   *)
(* are even multiples of 1e-6, so the quotient is exact.                   *)
Average(a, b) ==
    IF IsNum(a) /\ IsNum(b) THEN Num((a.v + b.v) \div 2) ELSE Raise

(* ivc if ivp is None else (ivc + ivp)/2 if ivc else ivp *)
CombineCallPut(ivc, ivp) ==
    IF ivc = Raise \/ ivp = Raise THEN Raise
    ELSE IF ivp = None THEN ivc
    ELSE IF Truthy(ivc) THEN Average(ivc, ivp)
    ELSE ivp

(* The IV of one expiry bucket: lines 71 and 73 for j1, 72 and 74 for j2 *)
ExpiryIv(j, spot) ==
    CombineCallPut(nearest_atm_iv(j.calls, spot), nearest_atm_iv(j.puts, spot))

MaxCalls == 2

MaxPuts == 1

IV_TINY == 4

IV_A == 200000

IV_B == 300000

IvChoices == {None, Num(0), Num(IV_TINY), Num(IV_A), Num(IV_B), Str}

(* Quotes: a strike of 95, 105 or 110 with an IV that is absent, zero or a *)
(* number; a quote without strike; a quote whose IV is not a number.       *)
Quotes ==
    [strike : {Num(95), Num(105), Num(110)},
     impliedVolatility : {None, Num(0), Num(IV_A), Num(IV_B)}]
        \cup {[strike |-> None, impliedVolatility |-> Num(IV_A)],
              [strike |-> Num(95), impliedVolatility |-> Str]}

(* The puts of a bucket: a strike of 95 or 105 with an IV absent or a number *)
PutQuotes == [strike : {Num(95), Num(105)}, impliedVolatility : {None, Num(IV_B)}]

SpotChoices == {Num(100), Num(104)}

InitAtm ==
    /\ pc = "call"
    /\ args \in {[f |-> "expiry_iv", j |-> [calls |-> c, puts |-> p], spot |-> s] :
                    c \in SeqsUpTo(Quotes, MaxCalls), p \in SeqsUpTo(PutQuotes, MaxPuts),
                    s \in SpotChoices}
    /\ ext = <<>>
    /\ ret = Idle
    /\ next_row = 0
    /\ companies = <<>>
    /\ iv_files = {}

CallExpiryIv ==
    /\ pc = "call"
    /\ args.f = "expiry_iv"
    /\ ret' = [c  |-> nearest_atm_iv(args.j.calls, args.spot),
               p  |-> nearest_atm_iv(args.j.puts, args.spot),
               iv |-> ExpiryIv(args.j, args.spot)]
    /\ pc' = "done"
    /\ UNCHANGED <<args, ext, next_row, companies, iv_files>>

NextAtm == CallExpiryIv

SpecAtm == InitAtm /\ [][NextAtm]_vars

(* An OptionQuote of the data model: a strike, and an IV that is a number  *)
(* or absent.                                                              *)
WellFormedQuote(q) ==
    IsNum(q.strike) /\ (q.impliedVolatility = None \/ IsNum(q.impliedVolatility))

WellFormedBucket(j) ==
    /\ \A i \in 1..Len(j.calls) : WellFormedQuote(j.calls[i])
    /\ \A i \in 1..Len(j.puts) : WellFormedQuote(j.puts[i])

Candidates(options) ==
    {i \in 1..Len(options) : ~ InNoneZero(options[i].impliedVolatility)}

FirstNearest(options, spot) ==
    LET cand == Candidates(options)
        dist(i) == Abs(options[i].strike.v - spot.v)
        near == {i \in cand : \A k \in cand : dist(i) <= dist(k)}
    IN  IF cand = {} THEN None ELSE options[SetMin(near)].impliedVolatility

(* C9: nearest_atm_iv returns the IV of the first quote, in sequence       *)
(* order, nearest to spot among the quotes whose IV is neither null nor    *)
(* zero (None without one); the expiry's IV is the average of the call and *)
(* put picks when both exist, the existing one when only one does, and     *)
(* absent when neither does.                                               *)
C9_AtmPick ==
    (pc = "done" /\ args.f = "expiry_iv" /\ WellFormedBucket(args.j)) =>
    LET c == FirstNearest(args.j.calls, args.spot)
        p == FirstNearest(args.j.puts, args.spot)
    IN  /\ ret.c = c
        /\ ret.p = p
        /\ ret.iv = IF c # None /\ p # None THEN Num((c.v + p.v) \div 2)
                    ELSE IF c # None THEN c
                    ELSE IF p # None THEN p
                    ELSE None

(* A tie between two usable calls with different IVs, and a put pick *)
C9_Witness ==
    /\ pc = "done" /\ args.f = "expiry_iv" /\ WellFormedBucket(args.j)
    /\ Len(args.j.calls) = 2
    /\ Candidates(args.j.calls) = {1, 2}
    /\ Abs(args.j.calls[1].strike.v - args.spot.v) = Abs(args.j.calls[2].strike.v - args.spot.v)
    /\ args.j.calls[1].impliedVolatility # args.j.calls[2].impliedVolatility
    /\ Candidates(args.j.puts) # {}
    /\ ret.iv = Num((args.j.calls[1].impliedVolatility.v + ret.p.v) \div 2)

----------------------------------------------------------------------------
(* Exact arithmetic for the interpolation of iv30_from_yahoo.  The         *)
(* products of second counts exceed 32 bits, so naturals are sequences of  *)
(* base-10000 limbs, least significant first, without a leading zero limb  *)
(* (zero is the empty sequence); integers carry a sign; rationals are a    *)
(* signed numerator over a positive denominator.                           *)

LIMB == 10000

RECURSIVE BigOfNat(_)
BigOfNat(n) == IF n = 0 THEN <<>> ELSE <<n % LIMB>> \o BigOfNat(n \div LIMB)

RECURSIVE BigNorm(_)
BigNorm(a) ==
    IF a = <<>> THEN <<>>
    ELSE IF a[Len(a)] = 0 THEN BigNorm(SubSeq(a, 1, Len(a) - 1))
    ELSE a

RECURSIVE BigAddC(_, _, _)
BigAddC(a, b, c) ==
    IF a = <<>> /\ b = <<>> THEN (IF c = 0 THEN <<>> ELSE <<c>>)
    ELSE LET x == IF a = <<>> THEN 0 ELSE Head(a)
             y == IF b = <<>> THEN 0 ELSE Head(b)
             s == x + y + c
         IN  <<s % LIMB>> \o BigAddC(IF a = <<>> THEN <<>> ELSE Tail(a),
                                     IF b = <<>> THEN <<>> ELSE Tail(b),
                                     s \div LIMB)

BigAdd(a, b) == BigAddC(a, b, 0)

(* a - b for a >= b, before normalisation *)
RECURSIVE BigSubB(_, _, _)
BigSubB(a, b, c) ==
    IF a = <<>> THEN <<>>
    ELSE LET y == IF b = <<>> THEN 0 ELSE Head(b)
             s == Head(a) - y - c
         IN  <<IF s < 0 THEN s + LIMB ELSE s>>
                \o BigSubB(Tail(a), IF b = <<>> THEN <<>> ELSE Tail(b),
                           IF s < 0 THEN 1 ELSE 0)

BigSub(a, b) == BigNorm(BigSubB(a, b, 0))

(* -1, 0 or 1 as a < b, a = b or a > b *)
BigCmp(a, b) ==
    IF Len(a) # Len(b) THEN (IF Len(a) < Len(b) THEN -1 ELSE 1)
    ELSE LET diff == {i \in 1..Len(a) : a[i] # b[i]}
         IN  IF diff = {} THEN 0
             ELSE IF a[SetMax(diff)] < b[SetMax(diff)] THEN -1 ELSE 1

RECURSIVE BigMulLimb(_, _, _)
BigMulLimb(a, k, c) ==
    IF a = <<>> THEN (IF c = 0 THEN <<>> ELSE <<c>>)
    ELSE LET s == Head(a) * k + c
         IN  <<s % LIMB>> \o BigMulLimb(Tail(a), k, s \div LIMB)

BigShift(a) == IF a = <<>> THEN <<>> ELSE <<0>> \o a

RECURSIVE BigMul(_, _)
BigMul(a, b) ==
    IF a = <<>> \/ b = <<>> THEN <<>>
    ELSE BigAdd(BigNorm(BigMulLimb(a, Head(b), 0)), BigShift(BigMul(a, Tail(b))))

Z(sg, m) == [sg |-> IF m = <<>> THEN 0 ELSE sg, m |-> m]

ZOfInt(n) == IF n < 0 THEN Z(-1, BigOfNat(0 - n)) ELSE Z(1, BigOfNat(n))

ZNeg(a) == Z(0 - a.sg, a.m)

ZAdd(a, b) ==
    IF a.sg = 0 THEN b
    ELSE IF b.sg = 0 THEN a
    ELSE IF a.sg = b.sg THEN Z(a.sg, BigAdd(a.m, b.m))
    ELSE IF BigCmp(a.m, b.m) >= 0 THEN Z(a.sg, BigSub(a.m, b.m))
    ELSE Z(b.sg, BigSub(b.m, a.m))

ZMul(a, b) == Z(a.sg * b.sg, BigMul(a.m, b.m))

ZSign(a) == a.sg

Q(n, d) == [n |-> n, d |-> d]

(* the rational a/b of two integers, b > 0 *)
QFrac(a, b) == Q(ZOfInt(a), BigOfNat(b))

(* denominators are kept when they agree, so that the limbs stay few *)
QAdd(x, y) ==
    IF x.d = y.d THEN Q(ZAdd(x.n, y.n), x.d)
    ELSE Q(ZAdd(ZMul(x.n, Z(1, y.d)), ZMul(y.n, Z(1, x.d))), BigMul(x.d, y.d))

QNeg(x) == Q(ZNeg(x.n), x.d)

QSub(x, y) == QAdd(x, QNeg(y))

QMul(x, y) == Q(ZMul(x.n, y.n), BigMul(x.d, y.d))

(* x / y for y # 0 *)
QDiv(x, y) ==
    IF x.d = y.d THEN Q(Z(x.n.sg * y.n.sg, x.n.m), y.n.m)
    ELSE Q(ZMul(Z(y.n.sg, x.n.m), Z(x.n.sg, y.d)), BigMul(x.d, y.n.m))

QSign(x) == ZSign(x.n)

(* -1, 0 or 1 as x < y, x = y or x > y *)
QCmp(x, y) == QSign(QSub(x, y))

QAbs(x) == IF QSign(x) < 0 THEN QNeg(x) ELSE x

QMax(x, y) == IF QCmp(x, y) >= 0 THEN x ELSE y

----------------------------------------------------------------------------
(* iv30_from_yahoo *)

YEAR_SECONDS == 31557600

MICRO == 1000000

(* 1e-6, the floor of T1 and T2 *)
T_FLOOR == QFrac(1, MICRO)

(* 1e-9, the width under which T1 and T2 coincide *)
T_SAME == QFrac(1, 1000000000)

(* 1e-10, the floor of the variance under the square root *)
VAR_FLOOR == Q(ZOfInt(1), BigMul(BigOfNat(100000), BigOfNat(100000)))

(* 30.0 / 365.25, over the denominator of the year fractions *)
Tt == QFrac(TARGET_DAYS * DAY, YEAR_SECONDS)

(* an IV of the model, in units of 1e-6, as a rational *)
IvQ(v) == QFrac(v, MICRO)

YearFrac(e, t_now) == QMax(T_FLOOR, QFrac(e - t_now, YEAR_SECONDS))

Sqrt(q) == [t |-> "sqrt", q |-> q]

AlphaSwapped(T1, T2) ==
    IF QCmp(QAbs(QSub(T2, T1)), T_SAME) > 0
      THEN QDiv(QSub(T2, Tt), QSub(T2, T1))
      ELSE QFrac(1, 2)

Alpha(T1, T2) ==
    IF QCmp(QAbs(QSub(T2, T1)), T_SAME) > 0
      THEN QDiv(QSub(Tt, T1), QSub(T2, T1))
      ELSE QFrac(1, 2)

(* Lines 78-82, for numbers iv1 and iv2 (in units of 1e-6) *)
Interpolate(iv1, iv2, e1, e2, t_now) ==
    LET T1   == YearFrac(e1, t_now)
        T2   == YearFrac(e2, t_now)
        var1 == QMul(QMul(IvQ(iv1), IvQ(iv1)), T1)
        var2 == QMul(QMul(IvQ(iv2), IvQ(iv2)), T2)
        vart == QAdd(var1, QMul(QSub(var2, var1), Alpha(T1, T2)))
    IN  Sqrt(QMax(VAR_FLOOR, QDiv(vart, Tt)))

SelectIvWrongSide(iv1, iv2, e1, e2, t_now) ==
    IF iv1 = None /\ iv2 = None THEN None
    ELSE IF iv1 = None THEN iv1
    ELSE IF iv2 = None THEN iv2
    ELSE IF ~ (IsNum(iv1) /\ IsNum(iv2)) THEN Raise
    ELSE Interpolate(iv1.v, iv2.v, e1, e2, t_now)

(* Lines 75-82; iv*iv raises TypeError for a non-number *)
SelectIv(iv1, iv2, e1, e2, t_now) ==
    IF iv1 = None /\ iv2 = None THEN None
    ELSE IF iv1 = None THEN iv2
    ELSE IF iv2 = None THEN iv1
    ELSE IF ~ (IsNum(iv1) /\ IsNum(iv2)) THEN Raise
    ELSE Interpolate(iv1.v, iv2.v, e1, e2, t_now)

Fault == [t |-> "fault"]

Malformed == [t |-> "malformed"]

Bucket(c, p) == [t |-> "ok", calls |-> c, puts |-> p]

(* not e *)
Falsy(e) == e = None \/ e = Num(0)

(* The number of per-expiry fetches the call makes: none when it returns   *)
(* before line 69, one when the first fetch raises, else two.              *)
Fetches(chain_json, t_now, f1) ==
    IF ~ chain_json.ok \/ chain_json.spot = None THEN 0
    ELSE LET pe == pick_expiries(chain_json.expirationDates, t_now)
         IN  IF Falsy(pe.e1) \/ Falsy(pe.e2) THEN 0
             ELSE IF f1.t # "ok" THEN 1
             ELSE 2

(* The body of the try block: the value returned, or Raise *)
Iv30Body(chain_json, t_now, f1, f2) ==
    IF ~ chain_json.ok THEN Raise
    ELSE IF chain_json.spot = None THEN None
    ELSE LET pe == pick_expiries(chain_json.expirationDates, t_now)
         IN  IF Falsy(pe.e1) \/ Falsy(pe.e2) THEN None
             ELSE IF f1.t # "ok" \/ f2.t # "ok" THEN Raise
             ELSE LET iv1 == ExpiryIv(f1, chain_json.spot)
                      iv2 == ExpiryIv(f2, chain_json.spot)
                  IN  IF iv1 = Raise \/ iv2 = Raise THEN Raise
                      ELSE SelectIv(iv1, iv2, pe.e1.v, pe.e2.v, t_now)

(* except Exception: return None *)
iv30_from_yahoo(chain_json, t_now, f1, f2) ==
    LET r == Iv30Body(chain_json, t_now, f1, f2)
    IN  IF r = Raise THEN None ELSE r

Quote(k, iv) == [strike |-> k, impliedVolatility |-> iv]

(* Responses of the per-expiry fetch: a fault, a payload without the       *)
(* options array, or a bucket of at most one call (of any IV) and at most  *)
(* one put.                                                                *)
CallChoices == {<<>>} \cup {<<Quote(Num(100), iv)>> : iv \in IvChoices \ {None}}

PutChoices == {<<>>, <<Quote(Num(105), Num(IV_B))>>}

FetchChoices == {Fault, Malformed} \cup {Bucket(c, p) : c \in CallChoices, p \in PutChoices}

Chain(spot, exps) == [ok |-> TRUE, spot |-> spot, expirationDates |-> exps]

BadChain == [ok |-> FALSE, spot |-> None, expirationDates |-> <<>>]

(* Expiry lists of the chain: timestamps 1 or 20 days ahead, exactly or a  *)
(* few seconds later, and 30 or 40 days ahead, in any order.               *)
ChainExpChoices ==
    {NOW + k * DAY + j : k \in {1, 20}, j \in {0, MaxJitter}}
        \cup {NOW + 30 * DAY, NOW + 40 * DAY}

ChainChoices ==
    {BadChain} \cup {Chain(None, <<NOW + 20 * DAY>>)}
               \cup {Chain(Num(100), l) : l \in SeqsUpTo(ChainExpChoices, MaxExp)}

InitIv ==
    /\ pc = "call"
    /\ args \in {[f |-> "iv30_from_yahoo", chain_json |-> c, when |-> NOW] : c \in ChainChoices}
    /\ ext = <<>>
    /\ ret = Idle
    /\ next_row = 0
    /\ companies = <<>>
    /\ iv_files = {}

CallIv30FromYahoo ==
    /\ pc = "call"
    /\ args.f = "iv30_from_yahoo"
    /\ \E f1 \in FetchChoices, f2 \in FetchChoices :
          /\ ret' = iv30_from_yahoo(args.chain_json, args.when, f1, f2)
          /\ ext' = SubSeq(<<f1, f2>>, 1, Fetches(args.chain_json, args.when, f1))
    /\ pc' = "done"
    /\ UNCHANGED <<args, next_row, companies, iv_files>>

NextIv == CallIv30FromYahoo

SpecIv == InitIv /\ [][NextIv]_vars

IvDone == pc = "done" /\ args.f = "iv30_from_yahoo"

(* C2: iv30_from_yahoo returns a number or None, whatever the chain        *)
(* snapshot and the outcomes of the per-expiry fetches; it returns None    *)
(* when the spot is missing or no expiry is more than 1 day ahead.         *)
C2_NumberOrNone ==
    IvDone =>
    /\ ret.t \in {"None", "num", "sqrt"}
    /\ (args.chain_json.ok
          /\ (args.chain_json.spot = None
                \/ Usable(args.chain_json.expirationDates, args.when) = {}))
         => ret = None

(* Both per-expiry fetches returned buckets of well-formed quotes *)
BothFetched ==
    /\ IvDone /\ Len(ext) = 2
    /\ ext[1].t = "ok" /\ ext[2].t = "ok"
    /\ WellFormedBucket(ext[1]) /\ WellFormedBucket(ext[2])

(* The IV of a bucket of well-formed quotes, from the quotes alone *)
RefExpiryIv(j, spot) ==
    LET c == FirstNearest(j.calls, spot)
        p == FirstNearest(j.puts, spot)
    IN  IF c # None /\ p # None THEN Num((c.v + p.v) \div 2)
        ELSE IF c # None THEN c
        ELSE IF p # None THEN p
        ELSE None

HasUsableIv(j) == Candidates(j.calls) \cup Candidates(j.puts) # {}

(* C8: when exactly one of the two selected expiries has a call or put     *)
(* with a non-null, non-zero IV, the estimator returns that expiry's ATM   *)
(* IV itself; when neither has one it returns None.                        *)
C8_SingleYield ==
    BothFetched =>
    /\ (HasUsableIv(ext[1]) /\ ~ HasUsableIv(ext[2]))
          => ret = RefExpiryIv(ext[1], args.chain_json.spot)
    /\ (~ HasUsableIv(ext[1]) /\ HasUsableIv(ext[2]))
          => ret = RefExpiryIv(ext[2], args.chain_json.spot)
    /\ (~ HasUsableIv(ext[1]) /\ ~ HasUsableIv(ext[2])) => ret = None

(* Two distinct expiries selected, only the later one yields (the average  *)
(* of its call and put), and that IV is returned.                          *)
C8_Witness ==
    /\ BothFetched
    /\ pick_expiries(args.chain_json.expirationDates, args.when).e1
         # pick_expiries(args.chain_json.expirationDates, args.when).e2
    /\ ~ HasUsableIv(ext[1]) /\ ext[1].calls # <<>>
    /\ Candidates(ext[2].calls) # {} /\ Candidates(ext[2].puts) # {}
    /\ ret = Num((IV_A + IV_B) \div 2)

(* The inputs of the interpolation in a state where both expiries yield *)
BothYield ==
    /\ BothFetched
    /\ HasUsableIv(ext[1]) /\ HasUsableIv(ext[2])

Iv1 == RefExpiryIv(ext[1], args.chain_json.spot).v

Iv2 == RefExpiryIv(ext[2], args.chain_json.spot).v

E1 == pick_expiries(args.chain_json.expirationDates, args.when).e1.v

E2 == pick_expiries(args.chain_json.expirationDates, args.when).e2.v

Target == args.when + TARGET_DAYS * DAY

IvSq(v) == QMul(IvQ(v), IvQ(v))

(* the returned value is sqrt(q) with lo^2 <= q <= hi^2 *)
RetBetween(lo, hi) ==
    /\ ret.t = "sqrt"
    /\ QCmp(IvSq(lo), ret.q) <= 0
    /\ QCmp(ret.q, IvSq(hi)) <= 0

(* the returned value equals the IV v *)
RetEquals(v) ==
    \/ ret = Num(v)
    \/ ret.t = "sqrt" /\ QCmp(ret.q, IvSq(v)) = 0

IV_FLOOR == 10

OneSided ==
    LET le == AtMost30(args.chain_json.expirationDates, args.when)
        ge == AtLeast30(args.chain_json.expirationDates, args.when)
    IN  (le = {} /\ ge # {}) \/ (ge = {} /\ le # {})

(* C10: when every expiry more than 1 day ahead lies on the same side of   *)
(* the 30-day target, e1 = e2 and the estimator returns the ATM IV of that *)
(* expiry unchanged.                                                       *)
C10_SinglePoint ==
    (BothFetched /\ OneSided /\ ext[1] = ext[2]) =>
    /\ E1 = E2
    /\ IF HasUsableIv(ext[1]) THEN RetEquals(Iv1) ELSE ret = None

----------------------------------------------------------------------------
(* gapfill_and_clv.  Prices are integer cents; gapFillPct is returned in   *)
(* hundredths (round(x, 2)) and clv in thousandths (round(x, 3)).          *)

(* floor(n / d) for d > 0 and any integer n *)
FloorDiv(n, d) == IF n >= 0 THEN n \div d ELSE 0 - ((0 - n + d - 1) \div d)

(* round(n / d) for d > 0: to the nearest integer, a tie to the even one *)
RoundHalfEven(n, d) ==
    LET f == FloorDiv(n, d)
        r == n - f * d
    IN  IF 2 * r < d THEN f
        ELSE IF 2 * r > d THEN f + 1
        ELSE IF f % 2 = 0 THEN f ELSE f + 1

GapFillUncapped(retr, gap) == RoundHalfEven(10000 * retr, gap)

(* round(min(150.0, 100.0 * (retr / gap)), 2) in hundredths, for gap > 0 *)
GapFillRounded(retr, gap) ==
    IF 100 * retr >= 150 * gap THEN 15000 ELSE RoundHalfEven(10000 * retr, gap)

gapfill_and_clv(prev_close, d0) ==
    LET o == d0.open
        h == d0.high
        l == d0.low
        c == d0.close
        gap  == IF o >= prev_close THEN o - prev_close ELSE prev_close - o
        retr == IF o >= prev_close THEN o - l ELSE h - o
    IN  [gapFillPct |-> IF gap > 0 THEN GapFillRounded(retr, gap) ELSE 0,
         clv |-> IF h > l THEN RoundHalfEven(1000 * (2 * c - h - l), h - l) ELSE 0]

PRICE_BASE == 10000

PriceSpan == 3

Prices == PRICE_BASE..(PRICE_BASE + PriceSpan)

Bars == [open : Prices, high : Prices, low : Prices, close : Prices]

(* an OHLC bar of one trading day: low <= open <= high, low <= close <= high *)
ConsistentBar(b) ==
    /\ b.low <= b.open /\ b.open <= b.high
    /\ b.low <= b.close /\ b.close <= b.high

InitGap ==
    /\ pc = "call"
    /\ args \in {[f |-> "gapfill_and_clv", prev_close |-> p, d0 |-> b] :
                    p \in Prices, b \in {x \in Bars : ConsistentBar(x)}}
    /\ ext = <<>>
    /\ ret = Idle
    /\ next_row = 0
    /\ companies = <<>>
    /\ iv_files = {}

CallGapfillAndClv ==
    /\ pc = "call"
    /\ args.f = "gapfill_and_clv"
    /\ ret' = gapfill_and_clv(args.prev_close, args.d0)
    /\ pc' = "done"
    /\ UNCHANGED <<args, ext, next_row, companies, iv_files>>

NextGap == CallGapfillAndClv

SpecGap == InitGap /\ [][NextGap]_vars

GapDone == pc = "done" /\ args.f = "gapfill_and_clv"

GapOf == Abs(args.d0.open - args.prev_close)

RetrOf ==
    IF args.d0.open >= args.prev_close
      THEN args.d0.open - args.d0.low
      ELSE args.d0.high - args.d0.open

----------------------------------------------------------------------------
(* simple_pead.  clv is in thousandths, gapFillPct and ivCrush in          *)
(* hundredths; the score, peadPct and confidence are in hundredths.        *)

ClvScoreQuarter(clv) ==
    IF clv = None THEN 0 ELSE IF clv.v >= 0 THEN 100 ELSE -25

(* line 96 *)
ClvScore(clv) ==
    IF clv = None THEN 0 ELSE IF clv.v >= 0 THEN 100 ELSE -50

(* line 97 *)
GapFillScore(gapFillPct) ==
    IF gapFillPct = None THEN 0 ELSE IF gapFillPct.v <= 3300 THEN 100 ELSE -50

IvCrushScoreInclusive(ivCrush) ==
    IF ivCrush = None THEN 0
    ELSE IF -4000 <= ivCrush.v /\ ivCrush.v <= -500 THEN 100
    ELSE IF ivCrush.v <= -5000 THEN -50
    ELSE 0

(* lines 98-100 *)
IvCrushScore(ivCrush) ==
    IF ivCrush = None THEN 0
    ELSE IF -4000 <= ivCrush.v /\ ivCrush.v <= -500 THEN 100
    ELSE IF ivCrush.v < -5000 THEN -50
    ELSE 0

(* int(n / 100): truncation toward zero *)
IntOfHundredths(n) == IF n >= 0 THEN n \div 100 ELSE 0 - ((0 - n) \div 100)

simple_pead(clv, gapFillPct, ivCrush) ==
    LET score == ClvScore(clv) + GapFillScore(gapFillPct) + IvCrushScore(ivCrush)
        pead  == Max(-800, Min(1200, 2 * score))
    IN  [peadPct    |-> pead,
         rangePct   |-> <<IntOfHundredths(pead - 300), IntOfHundredths(pead + 300)>>,
         confidence |-> Max(10, Min(80, RoundHalfEven(350 + score, 10)))]

ClvChoices == {None, Num(-200), Num(0), Num(500)}

GapFillChoices == {None, Num(2000), Num(3300), Num(3301), Num(8000)}

IvCrushChoices ==
    {None, Num(-6000), Num(-5010), Num(-5000), Num(-4500), Num(-4000),
     Num(-2000), Num(-500), Num(-490), Num(1000)}

InitScore ==
    /\ pc = "call"
    /\ args \in {[f |-> "simple_pead", clv |-> c, gapFillPct |-> g, ivCrush |-> i] :
                    c \in ClvChoices, g \in GapFillChoices, i \in IvCrushChoices}
    /\ ext = <<>>
    /\ ret = Idle
    /\ next_row = 0
    /\ companies = <<>>
    /\ iv_files = {}

CallSimplePead ==
    /\ pc = "call"
    /\ args.f = "simple_pead"
    /\ ret' = simple_pead(args.clv, args.gapFillPct, args.ivCrush)
    /\ pc' = "done"
    /\ UNCHANGED <<args, ext, next_row, companies, iv_files>>

NextScore == CallSimplePead

SpecScore == InitScore /\ [][NextScore]_vars

ScoreDone == pc = "done" /\ args.f = "simple_pead"

(* the score of the scoring rule, in hundredths *)
RuleScore ==
    (IF args.clv = None THEN 0 ELSE IF args.clv.v >= 0 THEN 100 ELSE -50)
  + (IF args.gapFillPct = None THEN 0 ELSE IF args.gapFillPct.v <= 3300 THEN 100 ELSE -50)
  + (IF args.ivCrush = None THEN 0
     ELSE IF args.ivCrush.v \in -4000..-500 THEN 100
     ELSE IF args.ivCrush.v < -5000 THEN -50
     ELSE 0)

Clamp(x, lo, hi) == IF x < lo THEN lo ELSE IF x > hi THEN hi ELSE x

OnlyIvCrush(v) == args.clv = None /\ args.gapFillPct = None /\ args.ivCrush = Num(v)

(* C4: simple_pead returns peadPct = clamp(2 * score, -8, 12) and          *)
(* confidence = clamp(0.35 + 0.1 * score, 0.1, 0.8) for the score of the   *)
(* rule; ivCrushPct -40 and -5 score +1, -4.9 scores 0, -50.1 scores -0.5; *)
(* with all inputs absent the result is 0.0, [-3, 3], 0.35.                *)
C4_ScoringRule ==
    ScoreDone =>
    /\ ret.peadPct = Clamp(2 * RuleScore, -800, 1200)
    /\ 10 * ret.confidence = Clamp(350 + RuleScore, 100, 800)
    /\ (OnlyIvCrush(-4000) \/ OnlyIvCrush(-500)) => ret.peadPct = 200
    /\ OnlyIvCrush(-490) => ret.peadPct = 0
    /\ OnlyIvCrush(-5010) => ret.peadPct = -100
    /\ (args.clv = None /\ args.gapFillPct = None /\ args.ivCrush = None)
          => ret = [peadPct |-> 0, rangePct |-> <<-3, 3>>, confidence |-> 35]

(* All three inputs present, with an IV crush of exactly -50 between the   *)
(* two bands                                                               *)
C4_Witness ==
    /\ ScoreDone
    /\ args.clv = Num(-200) /\ args.gapFillPct = Num(3300) /\ args.ivCrush = Num(-5000)
    /\ ret.peadPct = 100 /\ ret.confidence = 40

(* C5: -8 <= peadPct <= 12, 0.1 <= confidence <= 0.8, and rangePct is the  *)
(* pair of integers (peadPct - 3, peadPct + 3), of width 6.                *)
C5_ResultBounds ==
    ScoreDone =>
    /\ -800 <= ret.peadPct /\ ret.peadPct <= 1200
    /\ 10 <= ret.confidence /\ ret.confidence <= 80
    /\ 100 * ret.rangePct[1] = ret.peadPct - 300
    /\ 100 * ret.rangePct[2] = ret.peadPct + 300
    /\ ret.rangePct[1] < ret.rangePct[2]
    /\ ret.rangePct[2] - ret.rangePct[1] = 6

(* The lowest score: a negative peadPct whose band is truncated from       *)
(* negative values                                                         *)
C5_Witness ==
    /\ ScoreDone
    /\ ret.peadPct = -300
    /\ ret.rangePct = <<-6, 0>>
    /\ ret.confidence = 20

----------------------------------------------------------------------------
(* main: one run over the rows of tickers.csv.  A date is a day number     *)
(* (unix time \div 86400).                                                 *)

NumRows == 2

Tickers == <<"AAA", "BBB", "CCC", "DDD">>

Today(now) == now \div DAY

(* now.strftime("%H:%M").startswith("19:55") *)
Phase(now) == IF (now % DAY) \div 60 = 19 * 60 + 55 THEN "pre" ELSE "post"

FileKey(tkr, date, kind) == [ticker |-> tkr, date |-> date, kind |-> kind]

HasFile(files, key) == \E x \in files : x.key = key

ReadFile(files, key) == (CHOOSE x \in files : x.key = key).iv30

(* write_text replaces the content of the file *)
WriteFile(files, key, iv) == {x \in files : x.key # key} \cup {[key |-> key, iv30 |-> iv]}

(* round((iv_post - iv_pre) / iv_pre * 100.0, 2) in hundredths, for numbers *)
IvCrush(iv_pre, iv_post) == Num(RoundHalfEven(10000 * (iv_post.v - iv_pre.v), iv_pre.v))

Bool(b) == [t |-> "bool", v |-> b]

(* The provider calls made for one row, in order, each with its outcome *)
ProviderCalls(captured, capture_post, ch, now, f1, f2, d0, dm1) ==
    (IF captured
       THEN <<[call |-> "chain", fault |-> ch = Fault]>>
              \o (IF ch = Fault THEN <<>>
                  ELSE [i \in 1..Fetches(ch, now, f1) |->
                          [call |-> "bucket", fault |-> <<f1, f2>>[i].t # "ok"]])
       ELSE <<>>)
    \o (IF capture_post
          THEN <<[call |-> "bars", fault |-> d0 = Fault]>>
                 \o (IF d0 = Fault THEN <<>> ELSE <<[call |-> "bars", fault |-> dm1 = Fault]>>)
          ELSE <<>>)

(* lines 122-124 *)
capture_pre(row, now) ==
    \/ Phase(now) = "pre" /\ row.class = "AMC" /\ row.report_date = Today(now)
    \/ Phase(now) = "post" /\ row.class = "BMO" /\ row.report_date = Today(now) + 1

capture_post(row, now) == Phase(now) = "post" /\ row.report_date = Today(now)

(* The entry appended to attempts by a capture (lines 129-136) *)
Attempt(w, ch, iv) ==
    IF ch = Fault THEN [when |-> w, ok |-> FALSE, reason |-> "fault"]
    ELSE [when |-> w, ok |-> Truthy(iv)]

(* Lines 127-136: the snapshot files after the captures, iv being the      *)
(* value iv30_from_yahoo gave (None when the chain fetch failed)           *)
CaptureFiles(row, now, files, iv) ==
    LET files1 == IF capture_pre(row, now) /\ Truthy(iv)
                    THEN WriteFile(files, FileKey(row.ticker, row.report_date, "pre"), iv)
                    ELSE files
    IN  IF capture_post(row, now) /\ Truthy(iv)
          THEN WriteFile(files1, FileKey(row.ticker, Today(now), "post"), iv)
          ELSE files1

(* Lines 139-142: a value not captured in this run is read back from its   *)
(* snapshot file when that exists                                          *)
Reuse(iv0, files, key) ==
    IF iv0 = None /\ HasFile(files, key) THEN ReadFile(files, key) ELSE iv0

(* Lines 143-168: the company record, from the IVs and the daily bars *)
Company(row, iv_pre, iv_post, attempts, bars_ok, d0, dm1) ==
    LET iv_crush == IF Truthy(iv_pre) /\ Truthy(iv_post) THEN IvCrush(iv_pre, iv_post) ELSE None
        stats == gapfill_and_clv(dm1.close, d0)
        gapFillPct == IF bars_ok THEN Num(stats.gapFillPct) ELSE None
        clv == IF bars_ok THEN Num(stats.clv) ELSE None
        drift == simple_pead(clv, gapFillPct, iv_crush)
        cont == IF bars_ok THEN Bool(clv.v >= 0 /\ gapFillPct.v <= 3300) ELSE None
    IN  [ticker |-> row.ticker, reportDate |-> row.report_date, class |-> row.class,
         iv30 |-> [pre |-> iv_pre, post |-> iv_post, iv30CrushPct |-> iv_crush,
                   attempts |-> attempts],
         realized |-> [gapFillPct |-> gapFillPct, clv |-> clv],
         peadPct |-> drift.peadPct, rangePct |-> drift.rangePct,
         confidence |-> drift.confidence, continuationFriendly |-> cont]

(* One iteration of the loop of main (lines 121-169) on a row, iv being    *)
(* the captured IV: the snapshot files, the provider calls and the record  *)
RowResult(row, now, files, ch, f1, f2, d0, dm1, iv) ==
    [files |-> CaptureFiles(row, now, files, iv),
     calls |-> ProviderCalls(capture_pre(row, now) \/ capture_post(row, now),
                             capture_post(row, now), ch, now, f1, f2, d0, dm1),
     company |->
        Company(row,
                Reuse(IF capture_pre(row, now) THEN iv ELSE None, CaptureFiles(row, now, files, iv),
                      FileKey(row.ticker, row.report_date, "pre")),
                Reuse(IF capture_post(row, now) THEN iv ELSE None, CaptureFiles(row, now, files, iv),
                      FileKey(row.ticker, Today(now), "post")),
                (IF capture_pre(row, now) THEN <<Attempt("pre", ch, iv)>> ELSE <<>>)
                   \o (IF capture_post(row, now) THEN <<Attempt("post", ch, iv)>> ELSE <<>>),
                capture_post(row, now) /\ d0 # Fault /\ dm1 # Fault,
                d0, dm1)]

ProcessedRow(row, now, files, ch, f1, f2, d0, dm1) ==
    RowResult(row, now, files, ch, f1, f2, d0, dm1,
              IF ch = Fault THEN None ELSE iv30_from_yahoo(ch, now, f1, f2))

(* 19:55:00 on the day of NOW *)
PreTime == NOW - (NOW % DAY) + (19 * 60 + 55) * 60

NowChoices == {NOW, PreTime}

RowChoices(i, now) ==
    {[ticker |-> Tickers[i], report_date |-> d, class |-> c] :
        d \in {Today(now), Today(now) + 1}, c \in {"AMC", "BMO"}}

RowLists(now) ==
    {l \in [1..NumRows -> UNION {RowChoices(i, now) : i \in 1..NumRows}] :
        \A i \in 1..NumRows : l[i] \in RowChoices(i, now)}

(* Snapshots left by an earlier run: none, or the pre-event IV of the      *)
(* first ticker                                                            *)
FileChoices(now) ==
    {{}, {[key |-> FileKey(Tickers[1], Today(now), "pre"), iv30 |-> Num(IV_B)]}}

(* Provider responses in main: the chain fetch faults, or returns a        *)
(* malformed chain or one with expiries 20 and 40 days ahead; only the     *)
(* first bucket can hold an IV, so that iv30 is one of the quoted IVs.     *)
MainChainChoices(now) ==
    {Fault, BadChain, Chain(Num(100), <<now + 20 * DAY, now + 40 * DAY>>)}

MainFetch1Choices ==
    {Fault, Bucket(<<>>, <<>>), Bucket(<<Quote(Num(100), Num(IV_A))>>, <<>>)}

MainFetch2Choices == {Fault, Bucket(<<>>, <<>>)}

D0Choices ==
    {Fault, [open |-> PRICE_BASE + 2, high |-> PRICE_BASE + 3,
             low |-> PRICE_BASE + 1, close |-> PRICE_BASE + 3]}

Dm1Choices ==
    {Fault, [open |-> PRICE_BASE, high |-> PRICE_BASE + 1,
             low |-> PRICE_BASE, close |-> PRICE_BASE + 1]}

InitMain ==
    /\ pc = "loop"
    /\ \E now \in NowChoices :
          /\ args \in {[f |-> "main", now |-> now, rows |-> l] : l \in RowLists(now)}
          /\ iv_files \in FileChoices(now)
    /\ ext = <<>>
    /\ ret = Idle
    /\ next_row = 1
    /\ companies = <<>>

ProcessRow ==
    /\ pc = "loop"
    /\ next_row <= Len(args.rows)
    /\ \E ch \in MainChainChoices(args.now), f1 \in MainFetch1Choices,
          f2 \in MainFetch2Choices, d0 \in D0Choices, dm1 \in Dm1Choices :
          LET r == ProcessedRow(args.rows[next_row], args.now, iv_files, ch, f1, f2, d0, dm1)
          IN  /\ companies' = Append(companies, r.company)
              /\ iv_files' = r.files
              /\ ext' = r.calls
    /\ next_row' = next_row + 1
    /\ UNCHANGED <<pc, args, ret>>

(* lines 171-173 *)
WriteReport ==
    /\ pc = "loop"
    /\ next_row > Len(args.rows)
    /\ pc' = "written"
    /\ ret' = [f |-> "report", phase |-> Phase(args.now), companies |-> companies]
    /\ UNCHANGED <<args, ext, next_row, companies, iv_files>>

NextMain == ProcessRow \/ WriteReport

SpecMain == InitMain /\ [][NextMain]_vars

FailedCalls == {i \in 1..Len(ext) : ext[i].fault}

FailedAttempts(c) ==
    {i \in 1..Len(c.iv30.attempts) : ~ c.iv30.attempts[i].ok}

(* C7: whenever a provider call (chain fetch, per-expiry bucket fetch or   *)
(* daily-bar fetch) fails while a ticker is processed, the fault is        *)
(* caught, an entry is appended to the ticker's attempts log, a company    *)
(* record for the ticker is emitted, and the later tickers are processed.  *)
C7_ProviderFaultPolicy ==
    /\ (args.f = "main" /\ next_row > 1 /\ FailedCalls # {}) =>
          /\ Len(companies) = next_row - 1
          /\ companies[next_row - 1].ticker = args.rows[next_row - 1].ticker
          /\ FailedAttempts(companies[next_row - 1]) # {}
    /\ (args.f = "main" /\ pc = "written") => Len(companies) = Len(args.rows)

=============================================================================
